---- MODULE Spec2Model ----
(***************************************************************************)
(* SimpCop (src/main.py): the checkable file tree of the "Code File        *)
(* Selector" window.  CheckableFileSystemModel keeps the set of checked    *)
(* indexes; MainWindow drives it from the tree view, the two bulk buttons  *)
(* and the base-directory dialog, and assembles the final prompt from the  *)
(* checked files.                                                          *)
(*                                                                         *)
(* An index of the QFileSystemModel is modelled by its path, a sequence of *)
(* path components.  The tree is the one rowCount/index/isDir report: one  *)
(* fixed directory tree with every directory listed.                       *)
(***************************************************************************)
EXTENDS Integers, Sequences, FiniteSets

\* Depth of the chain of nested directories proj/n/n/... of the tree.
MaxDepth == 2

-----------------------------------------------------------------------------
(* The directory tree the QFileSystemModel reports.                        *)

\* The top-level index ("/"): its parent() is the invalid QModelIndex.
Top == <<>>
InvalidIndex == <<"<invalid>">>
\* base_directory before any directory was chosen.
None == <<"<None>">>
\* What QFileDialog.getExistingDirectory returns when the dialog is cancelled.
EmptyString == <<"">>

ProjDir == <<"proj">>
OnlyDir == <<"proj", "only">>
InDir == <<"proj", "only", "in">>
ChainDir(k) == ProjDir \o [i \in 1..k |-> "n"]

DirNames == {"proj", "n", "only", "in"}

\* The rows of a directory, in the model's row order.
entryList(p) ==
    IF p = Top THEN <<"proj">>
    ELSE IF p = ProjDir THEN <<"n", "only", "Makefile", "a.min.js">>
    ELSE IF p = OnlyDir THEN <<"in">>
    ELSE IF p = InDir THEN <<"e.md">>
    ELSE IF \E k \in 1..MaxDepth : p = ChainDir(k)
         THEN (IF Len(p) - 1 < MaxDepth THEN <<"n">> ELSE <<>>) \o <<"C.PY">>
    ELSE <<>>

\* The characters of each file name of the tree.
Chars(name) ==
    CASE name = "Makefile" -> <<"M", "a", "k", "e", "f", "i", "l", "e">>
      [] name = "a.min.js" -> <<"a", ".", "m", "i", "n", ".", "j", "s">>
      [] name = "e.md"     -> <<"e", ".", "m", "d">>
      [] name = "C.PY"     -> <<"C", ".", "P", "Y">>
      [] OTHER             -> <<>>

\* Every index of the tree at or below p.
RECURSIVE Subtree(_)
Subtree(p) == {p} \cup UNION {Subtree(Append(p, entryList(p)[i])) : i \in 1..Len(entryList(p))}

Nodes == Subtree(Top)
RowTable == [p \in Nodes |-> entryList(p)]

rowCount(p) == Len(RowTable[p])
index(i, p) == Append(p, RowTable[p][i])
isValid(p) == p # InvalidIndex
parent(p) == IF p = Top \/ p = InvalidIndex THEN InvalidIndex ELSE SubSeq(p, 1, Len(p) - 1)
isDir(p) == p = Top \/ (p # InvalidIndex /\ p[Len(p)] \in DirNames)
fileName(p) == p[Len(p)]
Files == {n \in Nodes : ~isDir(n)}
Dirs == {n \in Nodes : isDir(n)}

\* The directories the user can pick in the base-directory dialog.
BaseDirs == {ProjDir, ChainDir(1)}

\* The files whose content read can fail (permission, encoding, I/O).
Flaky == {Append(ProjDir, "a.min.js")}

-----------------------------------------------------------------------------
(* Extension allow-list and QFileInfo.suffix().lower().                    *)

extensions ==
    {
      <<"p","y">>, <<"j","s">>, <<"t","s">>, <<"s","v","e","l","t","e">>,
      <<"c","s","s">>, <<"h","t","m","l">>, <<"j","s","o","n">>, <<"t","x","t">>,
      <<"m","d">>, <<"x","m","l">>, <<"y","m","l">>, <<"y","a","m","l">>,
      <<"s","q","l">>, <<"j","s","x">>, <<"t","s","x">>, <<"p","h","p">>,
      <<"r","b">>, <<"j","a","v","a">>, <<"c">>, <<"c","p","p">>,
      <<"c","s">>, <<"s","h">>, <<"b","a","s","h">>, <<"g","o">>,
      <<"r","s">>, <<"s","w","i","f","t">>, <<"k","t">>, <<"r">>,
      <<"d","a","r","t">>, <<"s","c","a","l","a">>, <<"i","n","i">>, <<"e","n","v">>,
      <<"t","o","m","l">>, <<"s","c","s","s">>, <<"l","e","s","s">>, <<"p","l">>,
      <<"l","u","a">>, <<"p","s","1">>, <<"v","b">>, <<"b","a","t">>,
      <<"c","o","f","f","e","e">>
    }

UpperCase == <<"A", "B", "C", "D", "E", "F", "G", "H", "I", "J", "K", "L", "M",
               "N", "O", "P", "Q", "R", "S", "T", "U", "V", "W", "X", "Y", "Z">>
LowerCase == <<"a", "b", "c", "d", "e", "f", "g", "h", "i", "j", "k", "l", "m",
               "n", "o", "p", "q", "r", "s", "t", "u", "v", "w", "x", "y", "z">>

\* A comparison that forgets .lower().
lower_missing(s) == s

\* str.lower(), character by character.
lowerChar(c) ==
    IF \E k \in 1..Len(UpperCase) : UpperCase[k] = c
    THEN LowerCase[CHOOSE k \in 1..Len(UpperCase) : UpperCase[k] = c]
    ELSE c
lower(s) == [i \in 1..Len(s) |-> lowerChar(s[i])]

\* QFileInfo.suffix(): the characters after the last '.', empty without one.
suffix(s) ==
    LET dots == {i \in 1..Len(s) : s[i] = "."}
    IN  IF dots = {} THEN <<>>
        ELSE SubSeq(s, (CHOOSE i \in dots : \A j \in dots : j <= i) + 1, Len(s))

\* fileInfo(index).suffix().lower() of every file of the tree.
SuffixLower == [f \in Files |-> lower(suffix(Chars(fileName(f))))]

index_valid(p) == isDir(p) \/ SuffixLower[p] \in extensions

-----------------------------------------------------------------------------
(* CheckableFileSystemModel: the check-state bookkeeping.  A model state   *)
(* st is [chk |-> checked_indexes, sig |-> indexes dataChanged was emitted *)
(* for].                                                                   *)

Qt_Checked == "Checked"
Qt_Unchecked == "Unchecked"

RECURSIVE setData(_, _, _)
RECURSIVE children_loop(_, _, _, _)
RECURSIVE update_parent(_, _)

\* update_children without the "skip directories" test.
RECURSIVE children_loop_into_dirs(_, _, _, _)
children_loop_into_dirs(st, idx, value, i) ==
    IF i > rowCount(idx) THEN st
    ELSE children_loop_into_dirs(setData(st, index(i, idx), value), idx, value, i + 1)
update_children_into_dirs(st, idx, value) == children_loop_into_dirs(st, idx, value, 1)

update_children(st, idx, value) == children_loop(st, idx, value, 1)

children_loop(st, idx, value, i) ==
    IF i > rowCount(idx) THEN st
    ELSE LET child == index(i, idx)
         IN  IF isDir(child)
             THEN children_loop(st, idx, value, i + 1)
             ELSE children_loop(setData(st, child, value), idx, value, i + 1)

\* One directory's recomputation from its direct files, as update_parent does it.
recompute(st, par, total, checked) ==
    [chk |-> IF checked = total THEN st.chk \cup {par}
             ELSE IF checked = 0 THEN st.chk \ {par}
             ELSE st.chk \cup {par},
     sig |-> st.sig \cup {par}]

\* update_parent without the recursive call: the immediate parent only.
update_parent_immediate_only(st, idx) ==
    LET par == parent(idx)
    IN  IF ~isValid(par) THEN st
        ELSE LET kids    == {index(i, par) : i \in 1..rowCount(par)}
                 total   == Cardinality({c \in kids : ~isDir(c)})
                 checked == Cardinality({c \in kids : ~isDir(c) /\ c \in st.chk})
             IN  IF total > 0 THEN recompute(st, par, total, checked) ELSE st

\* update_parent with a partially checked directory stored as unchecked.
RECURSIVE update_parent_mixed_unchecked(_, _)
update_parent_mixed_unchecked(st, idx) ==
    LET par == parent(idx)
    IN  IF ~isValid(par) THEN st
        ELSE LET kids    == {index(i, par) : i \in 1..rowCount(par)}
                 total   == Cardinality({c \in kids : ~isDir(c)})
                 checked == Cardinality({c \in kids : ~isDir(c) /\ c \in st.chk})
             IN  IF total > 0
                 THEN update_parent_mixed_unchecked(
                        [chk |-> IF checked = total THEN st.chk \cup {par}
                                 ELSE st.chk \ {par},
                         sig |-> st.sig \cup {par}],
                        par)
                 ELSE st

\* update_parent with the two outcomes of the fully checked case swapped.
RECURSIVE update_parent_all_discards(_, _)
update_parent_all_discards(st, idx) ==
    LET par == parent(idx)
    IN  IF ~isValid(par) THEN st
        ELSE LET kids    == {index(i, par) : i \in 1..rowCount(par)}
                 total   == Cardinality({c \in kids : ~isDir(c)})
                 checked == Cardinality({c \in kids : ~isDir(c) /\ c \in st.chk})
             IN  IF total > 0
                 THEN update_parent_all_discards(
                        [chk |-> IF checked = total THEN st.chk \ {par}
                                 ELSE IF checked = 0 THEN st.chk \ {par}
                                 ELSE st.chk \cup {par},
                         sig |-> st.sig \cup {par}],
                        par)
                 ELSE st

update_parent(st, idx) ==
    LET par == parent(idx)
    IN  IF ~isValid(par) THEN st
        ELSE LET kids    == {index(i, par) : i \in 1..rowCount(par)}
                 total   == Cardinality({c \in kids : ~isDir(c)})
                 checked == Cardinality({c \in kids : ~isDir(c) /\ c \in st.chk})
             IN  IF total > 0
                 THEN update_parent(recompute(st, par, total, checked), par)
                 ELSE st

\* setData walking up to the parents before the index itself is updated.
setData_parent_first(st, idx, value) ==
    LET s0 == update_parent(st, idx)
        s1 == [chk |-> IF value = Qt_Checked THEN s0.chk \cup {idx} ELSE s0.chk \ {idx},
               sig |-> s0.sig \cup {idx}]
    IN  update_children(s1, idx, value)

setData(st, idx, value) ==
    LET s1 == [chk |-> IF value = Qt_Checked THEN st.chk \cup {idx} ELSE st.chk \ {idx},
               sig |-> st.sig \cup {idx}]
    IN  update_parent(update_children(s1, idx, value), idx)

is_checked(chk, idx) == idx \in chk

\* data(index, Qt.CheckStateRole)
data(chk, idx) == IF idx \in chk THEN Qt_Checked ELSE Qt_Unchecked

\* get_all_file_indexes: the inner loop over the rows of one directory ...
RECURSIVE scan_rows(_, _, _)
scan_rows(par, i, acc) ==
    IF i > rowCount(par) THEN acc
    ELSE LET child == index(i, par)
         IN  IF isDir(child)
             THEN scan_rows(par, i + 1, [acc EXCEPT !.stack = Append(@, child)])
             ELSE IF index_valid(child)
                  THEN scan_rows(par, i + 1, [acc EXCEPT !.files = Append(@, child)])
                  ELSE scan_rows(par, i + 1, acc)

\* ... and the outer loop popping the stack.
RECURSIVE scan_stack(_)
scan_stack(acc) ==
    IF acc.stack = <<>> THEN acc.files
    ELSE LET par  == acc.stack[Len(acc.stack)]
             rest == SubSeq(acc.stack, 1, Len(acc.stack) - 1)
         IN  scan_stack(scan_rows(par, 1, [stack |-> rest, files |-> acc.files]))

get_all_file_indexes(rootPath) == scan_stack([stack |-> <<rootPath>>, files |-> <<>>])

-----------------------------------------------------------------------------
(* MainWindow: the handlers.                                               *)

VARIABLES
    checked_indexes,  \* CheckableFileSystemModel.checked_indexes
    base_directory,   \* MainWindow.base_directory, also the model's rootPath
    watched,          \* file_watcher.files()
    unreadable,       \* the files whose open()/read() raises right now
    pending,          \* watched files changed on disk, fileChanged not yet delivered
    final_prompt,     \* the file sections of the final prompt, their count, the level
    file_indexes,     \* what get_all_file_indexes returned to the last bulk button
    emitted,          \* the indexes dataChanged was emitted for by the last handler
    lastOp,           \* the last handler run, with its argument
    after_deselect,   \* whether the last handler was Select All run right after Deselect All
    prev_checked      \* checked_indexes before the last handler ran

vars == <<checked_indexes, base_directory, watched, unreadable, pending,
          final_prompt, file_indexes, emitted, lastOp, after_deselect, prev_checked>>

isfile(p) == p \in Files

update_file_watcher(chk) == {idx \in chk : ~isDir(idx) /\ isfile(idx)}

update_difficulty_level(file_count) ==
    IF file_count <= 2 THEN "Easy"
    ELSE IF 3 <= file_count /\ file_count <= 5 THEN "Moderate"
    ELSE "Hard"

\* The loop of update_final_prompt counting a file before its read succeeded.
RECURSIVE prompt_loop_counts_first(_, _, _)
prompt_loop_counts_first(todo, unr, acc) ==
    IF todo = {} THEN acc
    ELSE LET idx  == CHOOSE x \in todo : TRUE
             rest == todo \ {idx}
         IN  IF isDir(idx) THEN prompt_loop_counts_first(rest, unr, acc)
             ELSE IF ~index_valid(idx) THEN prompt_loop_counts_first(rest, unr, acc)
             ELSE IF idx \in unr
                  THEN prompt_loop_counts_first(rest, unr, [acc EXCEPT !.count = @ + 1])
                  ELSE prompt_loop_counts_first(rest, unr,
                           [files |-> acc.files \cup {idx}, count |-> acc.count + 1])

\* The loop of update_final_prompt over a copy of checked_indexes.
RECURSIVE prompt_loop(_, _, _)
prompt_loop(todo, unr, acc) ==
    IF todo = {} THEN acc
    ELSE LET idx  == CHOOSE x \in todo : TRUE
             rest == todo \ {idx}
         IN  IF isDir(idx) THEN prompt_loop(rest, unr, acc)
             ELSE IF ~index_valid(idx) THEN prompt_loop(rest, unr, acc)
             ELSE IF idx \in unr THEN prompt_loop(rest, unr, acc)
             ELSE prompt_loop(rest, unr,
                      [files |-> acc.files \cup {idx}, count |-> acc.count + 1])

update_final_prompt(chk, bd, unr) ==
    LET r == IF bd # None
             THEN prompt_loop(chk, unr, [files |-> {}, count |-> 0])
             ELSE [files |-> {}, count |-> 0]
    IN  [files |-> r.files, count |-> r.count, level |-> update_difficulty_level(r.count)]

\* setData over a list of indexes, in list order.
RECURSIVE set_each(_, _, _, _)
set_each(st, list, value, i) ==
    IF i > Len(list) THEN st
    ELSE set_each(setData(st, list[i], value), list, value, i + 1)

\* Deselect All as a plain checked_indexes.clear().
deselect_all_clears(chk, bd) == [chk |-> {}, sig |-> {}]

select_all(chk, bd) == set_each([chk |-> chk, sig |-> {}], get_all_file_indexes(bd), Qt_Checked, 1)
deselect_all(chk, bd) == set_each([chk |-> chk, sig |-> {}], get_all_file_indexes(bd), Qt_Unchecked, 1)

\* The items the tree view shows: what lies below its root index.
ShownTable == [bd \in BaseDirs |-> Subtree(bd) \ {bd}]
Shown(bd) == IF bd = None THEN {} ELSE ShownTable[bd]

Op(name, idx, value) == [op |-> name, index |-> idx, value |-> value]

Init ==
    /\ checked_indexes = {}
    /\ base_directory \in BaseDirs \cup {None}        \* load_last_directory
    /\ watched = {}
    /\ unreadable = {}
    /\ pending = {}
    /\ final_prompt = update_final_prompt({}, base_directory, {})
    /\ file_indexes = <<>>
    /\ emitted = {}
    /\ lastOp = Op("__init__", InvalidIndex, "")
    /\ after_deselect = FALSE
    /\ prev_checked = {}

\* A click on a tree item: on its check box the view first calls setData with
\* the toggled value; in both cases it then emits clicked.
tree_item_clicked(idx, onCheckBox) ==
    /\ idx \in Shown(base_directory)
    /\ LET value == IF idx \in checked_indexes THEN Qt_Unchecked ELSE Qt_Checked
       IN  \E st \in {IF onCheckBox
                      THEN setData([chk |-> checked_indexes, sig |-> {}], idx, value)
                      ELSE [chk |-> checked_indexes, sig |-> {}]} :
           /\ checked_indexes' = st.chk
           /\ emitted' = st.sig
           /\ watched' = update_file_watcher(st.chk)
           /\ pending' = {}
           /\ final_prompt' = update_final_prompt(st.chk, base_directory, unreadable)
           /\ lastOp' = IF onCheckBox THEN Op("setData", idx, value)
                                     ELSE Op("clicked", InvalidIndex, "")
    /\ after_deselect' = FALSE
    /\ prev_checked' = checked_indexes
    /\ UNCHANGED <<base_directory, unreadable, file_indexes>>

select_all_files ==
    /\ IF base_directory = None
       THEN UNCHANGED <<checked_indexes, final_prompt, file_indexes>> /\ emitted' = {}
       ELSE \E st \in {select_all(checked_indexes, base_directory)} :
                /\ file_indexes' = get_all_file_indexes(base_directory)
                /\ checked_indexes' = st.chk
                /\ emitted' = st.sig
                /\ final_prompt' = update_final_prompt(st.chk, base_directory, unreadable)
    /\ lastOp' = Op("select_all_files", InvalidIndex, Qt_Checked)
    /\ after_deselect' = (lastOp.op = "deselect_all_files")
    /\ prev_checked' = checked_indexes
    /\ UNCHANGED <<base_directory, watched, unreadable, pending>>

deselect_all_files ==
    /\ IF base_directory = None
       THEN UNCHANGED <<checked_indexes, final_prompt, file_indexes>> /\ emitted' = {}
       ELSE \E st \in {deselect_all(checked_indexes, base_directory)} :
                /\ file_indexes' = get_all_file_indexes(base_directory)
                /\ checked_indexes' = st.chk
                /\ emitted' = st.sig
                /\ final_prompt' = update_final_prompt(st.chk, base_directory, unreadable)
    /\ lastOp' = Op("deselect_all_files", InvalidIndex, Qt_Unchecked)
    /\ after_deselect' = FALSE
    /\ prev_checked' = checked_indexes
    /\ UNCHANGED <<base_directory, watched, unreadable, pending>>

\* select_base_directory without checked_indexes.clear().
select_base_directory_keeps(directory) ==
    /\ IF directory # EmptyString
       THEN /\ base_directory' = directory
            /\ checked_indexes' = checked_indexes
            /\ watched' = update_file_watcher(checked_indexes)
            /\ pending' = {}
            /\ final_prompt' = update_final_prompt(checked_indexes, directory, unreadable)
       ELSE UNCHANGED <<base_directory, checked_indexes, watched, pending, final_prompt>>
    /\ emitted' = {}
    /\ lastOp' = [op |-> "select_base_directory", index |-> directory, value |-> ""]
    /\ after_deselect' = FALSE
    /\ prev_checked' = checked_indexes
    /\ UNCHANGED <<unreadable, file_indexes>>

select_base_directory(directory) ==
    /\ IF directory # EmptyString
       THEN /\ base_directory' = directory
            /\ checked_indexes' = {}
            /\ watched' = update_file_watcher({})
            /\ pending' = {}
            /\ final_prompt' = update_final_prompt({}, directory, unreadable)
       ELSE UNCHANGED <<base_directory, checked_indexes, watched, pending, final_prompt>>
    /\ emitted' = {}
    /\ lastOp' = Op("select_base_directory", directory, "")
    /\ after_deselect' = FALSE
    /\ prev_checked' = checked_indexes
    /\ UNCHANGED <<unreadable, file_indexes>>

\* The watcher's fileChanged(path) signal is delivered.
file_changed(path) ==
    /\ path \in pending
    /\ pending' = pending \ {path}
    /\ final_prompt' = update_final_prompt(checked_indexes, base_directory, unreadable)
    /\ emitted' = {}
    /\ lastOp' = Op("file_changed", path, "")
    /\ after_deselect' = FALSE
    /\ prev_checked' = checked_indexes
    /\ UNCHANGED <<checked_indexes, base_directory, watched, unreadable, file_indexes>>

\* The environment rewrites a file on disk: its read starts or stops failing,
\* and a watched file is reported by the watcher.
disk_change(f) ==
    /\ f \in Flaky
    /\ unreadable' = IF f \in unreadable THEN unreadable \ {f} ELSE unreadable \cup {f}
    /\ pending' = IF f \in watched THEN pending \cup {f} ELSE pending
    /\ emitted' = {}
    /\ lastOp' = Op("disk_change", f, "")
    /\ after_deselect' = FALSE
    /\ prev_checked' = checked_indexes
    /\ UNCHANGED <<checked_indexes, base_directory, watched, final_prompt, file_indexes>>

Next ==
    \/ \E idx \in Nodes \ {Top}, onCheckBox \in BOOLEAN : tree_item_clicked(idx, onCheckBox)
    \/ select_all_files
    \/ deselect_all_files
    \/ \E directory \in BaseDirs \cup {EmptyString} : select_base_directory(directory)
    \/ \E path \in Files : file_changed(path)
    \/ \E f \in Files : disk_change(f)

Spec == Init /\ [][Next]_vars

TypeOK ==
    /\ checked_indexes \subseteq Nodes
    /\ base_directory \in BaseDirs \cup {None}
    /\ watched \subseteq Files
    /\ pending \subseteq watched
    /\ unreadable \subseteq Flaky

-----------------------------------------------------------------------------
(* Vocabulary of the properties.                                           *)

\* The files directly in directory d, and every file at any depth below it.
DirectFiles == [d \in Dirs |-> {f \in Files : parent(f) = d}]
LeavesBelow == [d \in Dirs |-> Files \cap Subtree(d)]
\* The directories above n, up to the top-level index.
Ancestors == [n \in Nodes |-> {a \in Dirs : a # n /\ n \in Subtree(a)}]
\* The ancestors of n the upward walk passes: those with no file-less
\* directory between n and them, themselves included.
Walked == [n \in Nodes |->
             {a \in Ancestors[n] :
                 \A b \in Ancestors[n] : b \in Subtree(a) => DirectFiles[b] # {}}]

\* The toggle the view made through setData in the last handler.
Toggled == lastOp.op = "setData"
ToggledDir == Toggled /\ isDir(lastOp.index)

\* C1 as stated: setChecked(D, v) on a directory leaves every leaf at any
\* depth below D in the selection set if v is true and out of it if v is false.
C1_AllDescendantLeaves ==
    ToggledDir =>
        \A f \in LeavesBelow[lastOp.index] :
            f \in checked_indexes <=> lastOp.value = Qt_Checked

\* C1 amended: setChecked(D, v) on a directory applies v to every file directly
\* in D, whatever its extension; the leaves inside subdirectories of D keep the
\* membership they had.
C1_DirectFilesOnly ==
    ToggledDir =>
        /\ \A f \in DirectFiles[lastOp.index] :
               f \in checked_indexes <=> lastOp.value = Qt_Checked
        /\ \A f \in LeavesBelow[lastOp.index] \ DirectFiles[lastOp.index] :
               f \in checked_indexes <=> f \in prev_checked

\* A directory with direct files and nested leaves was checked: its files
\* were unchecked before, and a nested leaf is still unchecked.
C1_Witness ==
    /\ ToggledDir
    /\ lastOp.value = Qt_Checked
    /\ DirectFiles[lastOp.index] # {}
    /\ DirectFiles[lastOp.index] \cap prev_checked = {}
    /\ \E f \in LeavesBelow[lastOp.index] \ DirectFiles[lastOp.index] :
           f \notin checked_indexes

\* C2 as stated: after setChecked(node, v) every ancestor of node is in the
\* selection set when all or some of its descendant leaves are checked and
\* absent from it when none is.
C2_AncestorsFromDescendantLeaves ==
    Toggled =>
        \A a \in Ancestors[lastOp.index] :
            LeavesBelow[a] # {} =>
                (a \in checked_indexes <=> LeavesBelow[a] \cap checked_indexes # {})

\* C2 amended: after setChecked(node, v) every ancestor of node up to, and not
\* including, the nearest ancestor with no file directly in it has had its
\* entry recomputed (dataChanged emitted) from the files directly in it: in the
\* selection set when all or some of them are checked, absent when none is.
\* That nearest file-less ancestor and every ancestor above it are left as
\* they were.
C2_WalkedAncestorsFromDirectFiles ==
    Toggled =>
        \A a \in Ancestors[lastOp.index] :
            IF a \in Walked[lastOp.index]
            THEN /\ a \in emitted
                 /\ a \in checked_indexes <=> DirectFiles[a] \cap checked_indexes # {}
            ELSE /\ a \notin emitted
                 /\ a \in checked_indexes <=> a \in prev_checked

\* A leaf two levels below the base directory was toggled: parent and
\* grandparent were both recomputed, one of them partially checked.
C2_Witness ==
    /\ Toggled
    /\ lastOp.index \in Files
    /\ Cardinality(Walked[lastOp.index]) >= 2
    /\ parent(lastOp.index) \in checked_indexes
    /\ \E a \in Walked[lastOp.index] :
           /\ a \in checked_indexes
           /\ DirectFiles[a] \ checked_indexes # {}

\* Checking every index of a list in turn, and the same in reverse order.
Reverse(list) == [i \in 1..Len(list) |-> list[Len(list) + 1 - i]]
RECURSIVE SeqOf(_)
SeqOf(set) ==
    IF set = {} THEN <<>>
    ELSE LET x == CHOOSE y \in set : TRUE IN <<x>> \o SeqOf(set \ {x})
LeafList == [d \in Dirs |-> SeqOf(LeavesBelow[d])]
EachLeafChecked(d) ==
    set_each([chk |-> checked_indexes, sig |-> {}], LeafList[d], Qt_Checked, 1).chk
EachLeafCheckedBackwards(d) ==
    set_each([chk |-> checked_indexes, sig |-> {}], Reverse(LeafList[d]), Qt_Checked, 1).chk
ToggleChecked(d) == setData([chk |-> checked_indexes, sig |-> {}], d, Qt_Checked).chk

\* C3 as stated: for every directory D containing leaves, from any state,
\* checking each leaf of D individually gives the same isChecked(D) as one
\* setChecked(D, true).
C3_LeavesLikeToggle ==
    \A d \in Shown(base_directory) \cap Dirs :
        LeavesBelow[d] # {} =>
            /\ is_checked(EachLeafChecked(d), d) = is_checked(ToggleChecked(d), d)
            /\ is_checked(EachLeafCheckedBackwards(d), d) = is_checked(ToggleChecked(d), d)

\* C3 amended: for every directory D with at least one file directly in it,
\* from any state, checking each leaf of D individually leaves D checked, as
\* one setChecked(D, true) does.
C3_DirectLeavesLikeToggle ==
    \A d \in Shown(base_directory) \cap Dirs :
        DirectFiles[d] # {} =>
            /\ is_checked(ToggleChecked(d), d)
            /\ is_checked(EachLeafChecked(d), d) = is_checked(ToggleChecked(d), d)
            /\ is_checked(EachLeafCheckedBackwards(d), d) = is_checked(ToggleChecked(d), d)

\* The last leaf of a directory with a nested leaf was checked individually:
\* every leaf below the directory is now checked, and so is the directory.
C3_Witness ==
    /\ Toggled
    /\ lastOp.index \in Files
    /\ lastOp.value = Qt_Checked
    /\ \E d \in Shown(base_directory) \cap Dirs :
           /\ lastOp.index \in LeavesBelow[d]
           /\ LeavesBelow[d] # DirectFiles[d]
           /\ DirectFiles[d] # {}
           /\ LeavesBelow[d] \subseteq checked_indexes
           /\ d \in checked_indexes
           /\ checked_indexes = EachLeafChecked(d)

\* The tree below the current base directory, the base directory included.
UnderBase == IF base_directory = None THEN {} ELSE Subtree(base_directory)

\* The last handler unchecked one leaf of a directory that was fully checked:
\* all leaves below it, the directory and its ancestors within the tree.
UncheckedLeafOfFullDir ==
    /\ Toggled
    /\ lastOp.index \in Files
    /\ lastOp.value = Qt_Unchecked
    /\ LET d == parent(lastOp.index)
       IN  /\ LeavesBelow[d] \subseteq prev_checked
           /\ d \in prev_checked
           /\ Ancestors[d] \cap UnderBase \subseteq prev_checked

\* C4 as stated: unchecking one leaf of a fully checked directory D makes D
\* and every ancestor of D stop reporting the checked state.
C4_AllFlip ==
    UncheckedLeafOfFullDir =>
        \A x \in {parent(lastOp.index)} \cup (Ancestors[parent(lastOp.index)] \cap UnderBase) :
            data(checked_indexes, x) # Qt_Checked

\* C4 amended: unchecking one leaf L of a fully checked directory D leaves D
\* reporting checked when another file directly in D is still checked (mixed
\* is shown as checked) and unchecked only when L was the one file directly in
\* D; every ancestor of D reports the state it reported before.
C4_FlipsOnlyWhenLastFile ==
    UncheckedLeafOfFullDir =>
        LET d == parent(lastOp.index)
        IN  /\ data(checked_indexes, d) = Qt_Checked <=> DirectFiles[d] # {lastOp.index}
            /\ \A a \in Ancestors[d] :
                   data(checked_indexes, a) = data(prev_checked, a)

\* The one file of a fully checked directory with checked ancestors was
\* unchecked: the directory flipped, the ancestors did not.
C4_Witness ==
    /\ UncheckedLeafOfFullDir
    /\ Ancestors[parent(lastOp.index)] \cap UnderBase # {}
    /\ parent(lastOp.index) \notin checked_indexes

\* C5: once deselectAll() has run, selectAll() gives the selection set that
\* selectAll() alone gives from the state deselectAll() started in.
C5_DeselectThenSelect ==
    (lastOp.op = "deselect_all_files" /\ base_directory # None) =>
        select_all(checked_indexes, base_directory).chk
            = select_all(prev_checked, base_directory).chk

\* Select All ran right after Deselect All, with a checked file outside the
\* allow-list that neither of them touches.
C5_Witness ==
    /\ lastOp.op = "select_all_files"
    /\ after_deselect
    /\ base_directory # None
    /\ \E f \in Files \cap checked_indexes : ~index_valid(f)
    /\ \E i \in 1..Len(file_indexes) : file_indexes[i] \in checked_indexes

\* Every order of 1..n.
Orders(n) == {f \in [1..n -> 1..n] : \A i, j \in 1..n : f[i] = f[j] => i = j}
PermTable == [n \in 0..Len(get_all_file_indexes(ProjDir)) |-> Orders(n)]

BulkDone ==
    /\ lastOp.op \in {"select_all_files", "deselect_all_files"}
    /\ base_directory # None

\* C6: the selection set Select All / Deselect All produced is the one every
\* other order of the leaves of allLeaves() produces from the same state.
C6_OrderIndependent ==
    BulkDone =>
        \A f \in PermTable[Len(file_indexes)] :
            set_each([chk |-> prev_checked, sig |-> {}],
                     [i \in 1..Len(file_indexes) |-> file_indexes[f[i]]],
                     lastOp.value, 1).chk = checked_indexes

\* A bulk button ran over leaves of several directories from a mixed state and
\* changed the selection set.
C6_Witness ==
    /\ BulkDone
    /\ Len(file_indexes) >= 3
    /\ prev_checked # checked_indexes
    /\ \E i, j \in 1..Len(file_indexes) :
           /\ file_indexes[i] \in prev_checked
           /\ file_indexes[j] \notin prev_checked

DirectoryPicked ==
    /\ lastOp.op = "select_base_directory"
    /\ lastOp.index # EmptyString

\* C7: when the user has picked a base directory the selection set is empty.
C7_PickClears ==
    DirectoryPicked => checked_indexes = {}

\* Another base directory was picked while files and directories of the
\* previous one were checked.
C7_Witness ==
    /\ DirectoryPicked
    /\ prev_checked \cap Files # {}
    /\ prev_checked \cap Dirs # {}
    /\ \E f \in prev_checked : f \notin UnderBase

\* The files whose extension, compared case-insensitively, is in the allow-list.
EqualIgnoringCase(a, b) ==
    /\ Len(a) = Len(b)
    /\ \A i \in 1..Len(a) : lowerChar(a[i]) = lowerChar(b[i])
AllowListed ==
    {f \in Files :
        LET c == Chars(fileName(f))
        IN  \E i \in 1..Len(c) :
                /\ c[i] = "."
                /\ \A j \in (i + 1)..Len(c) : c[j] # "."
                /\ \E e \in extensions : EqualIgnoringCase(SubSeq(c, i + 1, Len(c)), e)}
Range(list) == {list[i] : i \in 1..Len(list)}

\* C8: allLeaves() returns exactly the files below the current root, at any
\* depth, whose extension is allow-listed case-insensitively; no directory.
C8_AllLeavesExact ==
    BulkDone =>
        /\ Range(file_indexes) = UnderBase \cap AllowListed
        /\ \A i \in 1..Len(file_indexes) : ~isDir(file_indexes[i])

\* allLeaves() returned a file with an upper-case extension from a nested
\* directory and left out a file of the tree that is not allow-listed.
C8_Witness ==
    /\ BulkDone
    /\ \E i \in 1..Len(file_indexes) :
           /\ fileName(file_indexes[i]) = "C.PY"
           /\ parent(file_indexes[i]) # base_directory
    /\ (Files \cap UnderBase) \ Range(file_indexes) # {}

\* The last handler recomputed the final prompt.
Recomputed ==
    \/ lastOp.op \in {"setData", "clicked", "file_changed"}
    \/ BulkDone
    \/ DirectoryPicked

\* C9: a recomputed final prompt holds a section for exactly the checked
\* allow-listed files whose read succeeds, and the count behind the difficulty
\* level is the number of those sections.
C9_PromptFiles ==
    Recomputed =>
        /\ final_prompt.files = (checked_indexes \cap AllowListed) \ unreadable
        /\ final_prompt.count = Cardinality(final_prompt.files)
        /\ final_prompt.level = update_difficulty_level(Cardinality(final_prompt.files))

\* The prompt was recomputed with a checked directory, a checked file outside
\* the allow-list and a checked file whose read fails, and still has sections.
C9_Witness ==
    /\ Recomputed
    /\ checked_indexes \cap Dirs # {}
    /\ (checked_indexes \cap Files) \ AllowListed # {}
    /\ checked_indexes \cap AllowListed \cap unreadable # {}
    /\ final_prompt.files # {}

\* C10: a directory with a file directly in it is in the selection set exactly
\* when one of the files directly in it is.
C10_DirFollowsDirectFiles ==
    \A d \in Dirs :
        DirectFiles[d] # {} =>
            (d \in checked_indexes <=> DirectFiles[d] \cap checked_indexes # {})

\* A directory is shown checked with only some of its files checked, and a
\* directory without files is checked by its own toggle over unchecked leaves.
C10_Witness ==
    /\ \E d \in Dirs :
           /\ d \in checked_indexes
           /\ DirectFiles[d] \cap checked_indexes # {}
           /\ DirectFiles[d] \ checked_indexes # {}
    /\ \E d \in Dirs \cap checked_indexes :
           /\ DirectFiles[d] = {}
           /\ LeavesBelow[d] \cap checked_indexes = {}

\* The last handler was a user operation that changes the selection set:
\* a toggle of a tree item, one of the two bulk buttons, or the pick of a
\* base directory.
SelectionChanged == Toggled \/ BulkDone \/ DirectoryPicked

\* The checked non-directory nodes whose path is an existing file.
CheckedExistingFiles == {f \in checked_indexes : ~isDir(f) /\ isfile(f)}

\* C11: after every user operation that changes the selection set, the paths
\* registered with the file watcher are exactly the checked non-directory
\* nodes whose path is an existing file.
C11_WatcherFollowsSelection ==
    SelectionChanged => watched = CheckedExistingFiles

\* The part of C11 the handlers do keep: after a toggle of a tree item and
\* after the pick of a base directory the watcher holds exactly the checked
\* existing files.
C11_WatcherAfterToggleOrPick ==
    (Toggled \/ DirectoryPicked) => watched = CheckedExistingFiles

\* A bulk button has left a checked existing file outside the watcher.
C11_UnwatchedCheckedFile ==
    /\ BulkDone
    /\ CheckedExistingFiles \ watched # {}

====
